---- MODULE Spec2Model ----
(***************************************************************************)
(* Model of scripts/dataCleaner.py: the class dataCleaner, its optional    *)
(* internal table self.df and its public operations on tables.             *)
(*                                                                         *)
(* A table is a record [nrows, col]: col maps each column name to the      *)
(* sequence of its nrows cells.  A numeric cell is an exact fraction       *)
(* <<n, d>> in lowest terms with d > 0; the missing value NaN is <<0, 0>>. *)
(***************************************************************************)
EXTENDS Integers, Sequences, FiniteSets, TLC

VARIABLES
    hasdf,        \* TRUE iff the attribute self.df has been set
    selfdf,       \* the internal table self.df (meaningful iff hasdf)
    df,           \* the caller's table, passed by reference as `df`
    old,          \* the caller's table as it was when the last call started
    oldself,      \* self.df as it was when the last call started
    call,         \* the last call: operation name and arguments
    ret,          \* what the last call returned
    raised,       \* TRUE iff the last call propagated an exception
    printed,      \* what the last call printed, in order
    calls,        \* number of calls made so far
    pc,           \* position inside choose_k_means
    k,            \* loop variable of choose_k_means
    distortions,  \* local list of choose_k_means
    inertias      \* local list of choose_k_means

vars == <<hasdf, selfdf, df, old, oldself, call, ret, raised, printed, calls,
          pc, k, distortions, inertias>>

(***************************************************************************)
(* Bounds.                                                                 *)
(***************************************************************************)
MaxCalls == 2
MaxRowsInternal == 1
MaxRowsArg == 1
MaxRowsPct == 10
MaxRowsFill == 4
MaxRowsOutlier == 4
MaxRowsDate == 2
MaxRowsK == 3
MaxNum == 5

(***************************************************************************)
(* Numbers.                                                                *)
(***************************************************************************)
NaN == <<0, 0>>

IsNull(x) == x[2] = 0

Num(n) == <<n, 1>>

Abs(n) == IF n < 0 THEN -n ELSE n

RECURSIVE GCD(_, _)
GCD(a, b) == IF b = 0 THEN a ELSE GCD(b, a % b)

Norm(x) ==
    IF x[2] = 0 THEN NaN
    ELSE LET s == IF x[2] < 0 THEN -1 ELSE 1
             g == GCD(Abs(x[1]), Abs(x[2]))
         IN  <<(s * x[1]) \div g, (s * x[2]) \div g>>

RAdd(x, y) == Norm(<<x[1] * y[2] + y[1] * x[2], x[2] * y[2]>>)

RSub(x, y) == Norm(<<x[1] * y[2] - y[1] * x[2], x[2] * y[2]>>)

RMul(x, y) == Norm(<<x[1] * y[1], x[2] * y[2]>>)

RDiv(x, n) == Norm(<<x[1], x[2] * n>>)

\* x > y as the library compares floats: any comparison with NaN is False
RGreater(x, y) ==
    /\ ~IsNull(x)
    /\ ~IsNull(y)
    /\ x[1] * y[2] > y[1] * x[2]

RLeq(x, y) == x[1] * y[2] <= y[1] * x[2]

RAbs(x) == <<Abs(x[1]), x[2]>>

(***************************************************************************)
(* Tables.                                                                 *)
(***************************************************************************)
Columns(T) == DOMAIN T.col

EmptyTable == [nrows |-> 0, col |-> <<>>]

\* every assignment of n cells to each column of cs, the cells of column c
\* taken from cells[c]
RECURSIVE ColumnsOver(_, _, _)
ColumnsOver(cs, n, cells) ==
    IF cs = {} THEN {<<>>}
    ELSE LET c == CHOOSE x \in cs : TRUE
         IN  { [d \in cs |-> IF d = c THEN s ELSE g[d]] :
               s \in [1..n -> cells[c]],
               g \in ColumnsOver(cs \ {c}, n, cells) }

\* every table with at most maxRows rows and columns among names
Tables(names, maxRows, cells) ==
    UNION { { [nrows |-> n, col |-> f] : f \in ColumnsOver(cs, n, cells) } :
            n \in 0..maxRows, cs \in SUBSET names }

\* Drop with errors='ignore': the labels that are columns are removed
Drop_ignoreMissing(T, cols) ==
    [ok |-> TRUE,
     table |-> [nrows |-> T.nrows,
                col |-> [c \in Columns(T) \ cols |-> T.col[c]]]]

\* DataFrame.drop(cols, axis=1): KeyError (ok = FALSE) when a label is not a
\* column, raised before anything is removed; otherwise the table without
\* the labelled columns
Drop(T, cols) ==
    IF cols \subseteq Columns(T)
    THEN [ok |-> TRUE,
          table |-> [nrows |-> T.nrows,
                     col |-> [c \in Columns(T) \ cols |-> T.col[c]]]]
    ELSE [ok |-> FALSE, table |-> T]

\* Series.fillna(v): every missing cell becomes v, the others are kept
FillNull(s, v) == [i \in 1..Len(s) |-> IF IsNull(s[i]) THEN v ELSE s[i]]

\* Series.dropna(): the non-missing cells, in row order
DropNa(s) == SelectSeq(s, LAMBDA x : ~IsNull(x))

\* Series.isnull().sum()
NullCount(s) == Len(s) - Len(DropNa(s))

RECURSIVE SumSeq(_)
SumSeq(s) == IF s = <<>> THEN Num(0) ELSE RAdd(Head(s), SumSeq(Tail(s)))

\* Series.mean(): NaN is skipped; NaN when nothing is left
Mean(s) ==
    LET vs == DropNa(s)
    IN  IF vs = <<>> THEN NaN ELSE RDiv(SumSeq(vs), Len(vs))

\* Series.median(): NaN is skipped; NaN when nothing is left
Median(s) ==
    LET vs == SortSeq(DropNa(s), LAMBDA x, y : RLeq(x, y) /\ x # y)
        n == Len(vs)
    IN  IF n = 0 THEN NaN
        ELSE IF n % 2 = 1 THEN vs[(n + 1) \div 2]
        ELSE RDiv(RAdd(vs[n \div 2], vs[n \div 2 + 1]), 2)

\* the quantile 0.95 as the fraction QNum / QDen
QNum == 19
QDen == 20

\* Quantile with interpolation='higher': the upper order statistic
Quantile_higher(s) ==
    LET vs == SortSeq(DropNa(s), LAMBDA x, y : RLeq(x, y) /\ x # y)
        n == Len(vs)
        pos == (n - 1) * QNum
    IN  IF n = 0 THEN NaN
        ELSE IF pos % QDen = 0 THEN vs[pos \div QDen + 1]
        ELSE vs[pos \div QDen + 2]

\* Series.quantile(0.95): linear interpolation between the two order
\* statistics around position (n - 1) * 0.95 of the sorted non-missing cells
Quantile(s) ==
    LET vs == SortSeq(DropNa(s), LAMBDA x, y : RLeq(x, y) /\ x # y)
        n == Len(vs)
        pos == (n - 1) * QNum
        lo == pos \div QDen + 1
        fr == pos % QDen
    IN  IF n = 0 THEN NaN
        ELSE IF fr = 0 THEN vs[lo]
        ELSE RAdd(vs[lo], RMul(<<fr, QDen>>, RSub(vs[lo + 1], vs[lo])))

(***************************************************************************)
(* Calls, return values and printed messages.                              *)
(***************************************************************************)
NoCall ==
    [op |-> "none", cols |-> {}, column |-> "", kind |-> "", num |-> 0,
     prevop |-> "none", prevcolumn |-> ""]

\* the record of a call, with the operation and column of the call before it
Call(o, cs, c, t, n) ==
    [op |-> o, cols |-> cs, column |-> c, kind |-> t, num |-> n,
     prevop |-> call.op, prevcolumn |-> call.column]

\* the value None, also the result of a function that ends without return
RetNone == [kind |-> "none", table |-> EmptyTable, column |-> <<>>]

RetTable(T) == [kind |-> "table", table |-> T, column |-> <<>>]

RetColumn(s) == [kind |-> "column", table |-> EmptyTable, column |-> s]

RetPair(d, i) == [kind |-> "pair", table |-> EmptyTable, column |-> <<d, i>>]

\* print(e) in an except clause
ErrorMsg == [kind |-> "error", val |-> <<>>]

\* print('type must be either mean, median or mode')
UsageMsg == [kind |-> "usage", val |-> <<>>]

\* print(f'columns to be filled with ... values: {cols}')
ColsMsg(cs) == [kind |-> "cols", val |-> cs]

\* print("The dataset contains", p, "%", "missing values.")
PctMsg(p) == [kind |-> "pct", val |-> p]

\* a new instance (__init__ sets nothing) on which nothing was called yet
Fresh ==
    /\ old = df
    /\ oldself = selfdf
    /\ call = NoCall
    /\ ret = RetNone
    /\ raised = FALSE
    /\ printed = <<>>
    /\ calls = 0
    /\ pc = "idle"
    /\ k = 0
    /\ distortions = <<>>
    /\ inertias = <<>>

\* __init__ leaves self.df unset
NoInternal ==
    /\ hasdf = FALSE
    /\ selfdf = EmptyTable

NoKMeans ==
    /\ pc = "idle"
    /\ UNCHANGED <<pc, k, distortions, inertias>>

(***************************************************************************)
(* remove_unwanted_cols(cols)                                              *)
(*   try: self.df.drop(cols, axis=1, inplace=True)                         *)
(*   except Exception as e: print(e)                                       *)
(*   finally: return self.df                                               *)
(* drop raises KeyError before removing anything when a label is absent.   *)
(* With self.df never set the try block fails with AttributeError, which   *)
(* is printed, and the return expression of the finally clause fails       *)
(* again, outside any handler.                                             *)
(***************************************************************************)
remove_unwanted_cols(cols) ==
    /\ calls < MaxCalls
    /\ NoKMeans
    /\ calls' = calls + 1
    /\ call' = Call("remove_unwanted_cols", cols, "", "", 0)
    /\ old' = df
    /\ oldself' = selfdf
    /\ UNCHANGED <<hasdf, df>>
    /\ IF ~hasdf
       THEN /\ printed' = <<ErrorMsg>>
            /\ raised' = TRUE
            /\ ret' = RetNone
            /\ UNCHANGED selfdf
       ELSE IF Drop(selfdf, cols).ok
       THEN /\ selfdf' = Drop(selfdf, cols).table
            /\ printed' = <<>>
            /\ raised' = FALSE
            /\ ret' = RetTable(selfdf')
       ELSE /\ UNCHANGED selfdf
            /\ printed' = <<ErrorMsg>>
            /\ raised' = FALSE
            /\ ret' = RetTable(selfdf)

(***************************************************************************)
(* fill_na(type, df, cols)                                                 *)
(* Each branch loops `for col in cols` over                                *)
(*   self.df.col.fillna(value=df.col.<stat>(), axis=1, inplace=True)       *)
(* where `.col` is the attribute named "col", not the loop variable: the   *)
(* first iteration fails with AttributeError when self.df is unset or      *)
(* either table has no column called "col", and otherwise Series.fillna    *)
(* rejects axis=1 with ValueError.  The handler prints and the function    *)
(* ends without a return.  With no column to visit the branch returns      *)
(* self.df, which fails inside the try when self.df is unset.              *)
(***************************************************************************)
FillKinds == {"mean", "median", "mode"}

\* Series.fillna(..., axis=1, ...): a Series has no axis 1 (ValueError)
SeriesHasAxis1 == FALSE

\* does the statement of the loop body raise for the tables at hand?
FillNaStatementRaises ==
    \/ ~hasdf
    \/ "col" \notin Columns(selfdf)
    \/ "col" \notin Columns(df)
    \/ ~SeriesHasAxis1

fill_na(type, cols) ==
    /\ calls < MaxCalls
    /\ NoKMeans
    /\ calls' = calls + 1
    /\ call' = Call("fill_na", cols, "", type, 0)
    /\ old' = df
    /\ oldself' = selfdf
    /\ raised' = FALSE
    /\ UNCHANGED <<hasdf, selfdf, df>>
    /\ IF type \in FillKinds
       THEN IF cols # {} /\ FillNaStatementRaises
            THEN /\ printed' = <<ErrorMsg>>
                 /\ ret' = RetNone
            ELSE IF hasdf
            THEN /\ printed' = <<>>
                 /\ ret' = RetTable(selfdf)
            ELSE /\ printed' = <<ErrorMsg>>
                 /\ ret' = RetNone
       ELSE /\ printed' = <<UsageMsg>>
            /\ ret' = RetNone

(***************************************************************************)
(* Operations on the internal table.                                       *)
(***************************************************************************)
NamesInternal == {"A", "col"}

ArgNamesInternal == {"A", "col", "Z"}

CellsInternal == [c \in NamesInternal |-> {NaN, Num(1)}]

InitInternal ==
    /\ hasdf \in BOOLEAN
    /\ selfdf \in Tables(NamesInternal, MaxRowsInternal, CellsInternal)
    /\ df \in Tables(NamesInternal, MaxRowsArg, CellsInternal)
    /\ Fresh

CallRemoveUnwantedCols == \E cols \in SUBSET ArgNamesInternal : remove_unwanted_cols(cols)

CallFillNa ==
    \E type \in FillKinds \cup {"max"}, cols \in SUBSET ArgNamesInternal :
        fill_na(type, cols)

NextInternal ==
    \/ CallRemoveUnwantedCols
    \/ CallFillNa

SpecInternal == InitInternal /\ [][NextInternal]_vars

(***************************************************************************)
(* percent_missing(df)                                                     *)
(*   totalCells = np.product(df.shape)                                     *)
(*   totalMissing = df.isnull().sum().sum()                                *)
(*   print(..., round((totalMissing / totalCells) * 100, 10), ...)         *)
(* The quotient of two numpy integers is nan when both are 0 (a warning,   *)
(* not an exception), and round(nan, 10) is nan.  The printed number is    *)
(* kept as integer part and two groups of five decimals, [int, hi, lo].    *)
(* Within the bounds the exact quotient is never within 1e-12 of a         *)
(* rounding tie, so rounding the float and rounding the fraction agree.    *)
(***************************************************************************)
Limb == 100000

PctNaN == [nan |-> TRUE, int |-> 0, hi |-> 0, lo |-> 0]

\* round(100 * m / n, 10), n > 0, ties to even
Round10(m, n) ==
    LET ip == (100 * m) \div n
        r0 == (100 * m) % n
        h == (r0 * Limb) \div n
        r1 == (r0 * Limb) % n
        l == (r1 * Limb) \div n
        r2 == (r1 * Limb) % n
        up == 2 * r2 > n \/ (2 * r2 = n /\ l % 2 = 1)
        l1 == IF up THEN l + 1 ELSE l
        h1 == IF l1 = Limb THEN h + 1 ELSE h
    IN  [nan |-> FALSE,
         int |-> IF h1 = Limb THEN ip + 1 ELSE ip,
         hi |-> h1 % Limb,
         lo |-> l1 % Limb]

\* the number of rows taken for the number of cells
TotalCells_rowsOnly(T) == T.nrows

\* np.product(df.shape)
TotalCells(T) == T.nrows * Cardinality(Columns(T))

RECURSIVE SumOver(_, _)
SumOver(f, S) ==
    IF S = {} THEN 0
    ELSE LET c == CHOOSE x \in S : TRUE
         IN  f[c] + SumOver(f, S \ {c})

\* df.isnull().sum().sum()
TotalMissing(T) ==
    SumOver([c \in Columns(T) |-> NullCount(T.col[c])], Columns(T))

Percent(T) ==
    IF TotalCells(T) = 0 THEN PctNaN
    ELSE Round10(TotalMissing(T), TotalCells(T))

percent_missing ==
    /\ calls < MaxCalls
    /\ NoKMeans
    /\ calls' = calls + 1
    /\ call' = Call("percent_missing", {}, "", "", 0)
    /\ old' = df
    /\ oldself' = selfdf
    /\ printed' = <<PctMsg(Percent(df))>>
    /\ ret' = RetNone
    /\ raised' = FALSE
    /\ UNCHANGED <<hasdf, selfdf, df>>

(***************************************************************************)
(* fillWithMedian(df, cols) / fillWithMean(df, cols)                       *)
(*   print(f'columns to be filled with ... values: {cols}')                *)
(*   df[cols] = df[cols].fillna(df[cols].median())                         *)
(*   return df                                                             *)
(* df[cols] raises KeyError when a name is absent, before any assignment.  *)
(* fillna with the Series of statistics fills each column with the entry   *)
(* of its own name.                                                        *)
(***************************************************************************)
\* DataFrame.median() / DataFrame.mean() for one column
Statistic(stat, s) == IF stat = "median" THEN Median(s) ELSE Mean(s)

RECURSIVE Pooled(_, _)
Pooled(T, cols) ==
    IF cols = {} THEN <<>>
    ELSE LET c == CHOOSE x \in cols : TRUE
         IN  T.col[c] \o Pooled(T, cols \ {c})

\* FillColumns with one statistic over all selected columns together
FillColumns_pooled(T, cols, stat) ==
    [nrows |-> T.nrows,
     col |-> [c \in Columns(T) |->
                IF c \in cols THEN FillNull(T.col[c], Statistic(stat, Pooled(T, cols)))
                ELSE T.col[c]]]

\* df[cols] = df[cols].fillna(df[cols].<stat>())
FillColumns(T, cols, stat) ==
    [nrows |-> T.nrows,
     col |-> [c \in Columns(T) |->
                IF c \in cols THEN FillNull(T.col[c], Statistic(stat, T.col[c]))
                ELSE T.col[c]]]

FillWith(name, cols, stat) ==
    /\ calls < MaxCalls
    /\ NoKMeans
    /\ calls' = calls + 1
    /\ call' = Call(name, cols, "", "", 0)
    /\ old' = df
    /\ oldself' = selfdf
    /\ raised' = FALSE
    /\ UNCHANGED <<hasdf, selfdf>>
    /\ IF cols \subseteq Columns(df)
       THEN /\ df' = FillColumns(df, cols, stat)
            /\ printed' = <<ColsMsg(cols)>>
       ELSE /\ UNCHANGED df
            /\ printed' = <<ColsMsg(cols), ErrorMsg>>
    /\ ret' = RetTable(df')

fillWithMedian(cols) == FillWith("fillWithMedian", cols, "median")

fillWithMean(cols) == FillWith("fillWithMean", cols, "mean")

(***************************************************************************)
(* fix_outlier(df, column)                                                 *)
(*   try:                                                                  *)
(*     df[column] = np.where(df[column] > df[column].quantile(0.95),       *)
(*                           df[column].median(), df[column])              *)
(*   except Exception as e: print(e)                                       *)
(*   return df[column]                                                     *)
(* The three arguments of np.where are evaluated on the column before it   *)
(* is assigned.  With the column absent, df[column] fails in the try       *)
(* block (printed) and again in the return statement, outside the handler. *)
(***************************************************************************)
\* Clip with >= in place of >
Clip_ge(s) ==
    [i \in 1..Len(s) |->
        IF ~IsNull(s[i]) /\ ~RGreater(Quantile(s), s[i]) THEN Median(s)
        ELSE s[i]]

\* np.where(s > s.quantile(0.95), s.median(), s)
Clip(s) ==
    [i \in 1..Len(s) |-> IF RGreater(s[i], Quantile(s)) THEN Median(s) ELSE s[i]]

fix_outlier(column) ==
    /\ calls < MaxCalls
    /\ NoKMeans
    /\ calls' = calls + 1
    /\ call' = Call("fix_outlier", {}, column, "", 0)
    /\ old' = df
    /\ oldself' = selfdf
    /\ UNCHANGED <<hasdf, selfdf>>
    /\ IF column \in Columns(df)
       THEN /\ df' = [df EXCEPT !.col[column] = Clip(df.col[column])]
            /\ printed' = <<ColsMsg({column})>>
            /\ raised' = FALSE
            /\ ret' = RetColumn(df'.col[column])
       ELSE /\ UNCHANGED df
            /\ printed' = <<ColsMsg({column}), ErrorMsg>>
            /\ raised' = TRUE
            /\ ret' = RetNone

(***************************************************************************)
(* Specifications of the operations on a caller's table.                   *)
(***************************************************************************)
NamesPct == {"A", "B", "C"}

\* the columns of n cells whose missing cells come first
LeadingNulls(n) ==
    { [i \in 1..n |-> IF i <= m THEN NaN ELSE Num(1)] : m \in 0..n }

TablesPct ==
    UNION { { [nrows |-> n, col |-> f] : f \in [cs -> LeadingNulls(n)] } :
            n \in 0..MaxRowsPct, cs \in SUBSET NamesPct }

InitPct ==
    /\ NoInternal
    /\ df \in TablesPct
    /\ Fresh

NextPct == percent_missing

SpecPct == InitPct /\ [][NextPct]_vars

NamesFill == {"A", "B"}

ArgNamesFill == {"A", "B", "Z"}

CellsFill == [c \in NamesFill |->
                IF c = "A" THEN {NaN, Num(1), Num(2)} ELSE {NaN, Num(3)}]

InitFill ==
    /\ NoInternal
    /\ df \in Tables(NamesFill, MaxRowsFill, CellsFill)
    /\ Fresh

CallFillWithMedian == \E cols \in SUBSET ArgNamesFill : fillWithMedian(cols)

CallFillWithMean == \E cols \in SUBSET ArgNamesFill : fillWithMean(cols)

NextFill ==
    \/ CallFillWithMedian
    \/ CallFillWithMean

SpecFill == InitFill /\ [][NextFill]_vars

NamesOutlier == {"X", "Y"}

ArgNamesOutlier == {"X", "Y", "Z"}

CellsOutlier == [c \in NamesOutlier |->
                   IF c = "X" THEN {NaN, Num(1), Num(2), Num(3), Num(100)}
                   ELSE {Num(7)}]

InitOutlier ==
    /\ NoInternal
    /\ df \in Tables(NamesOutlier, MaxRowsOutlier, CellsOutlier)
    /\ Fresh

CallFixOutlier == \E column \in ArgNamesOutlier : fix_outlier(column)

NextOutlier == CallFixOutlier

SpecOutlier == InitOutlier /\ [][NextOutlier]_vars

(***************************************************************************)
(* convert_to_datetime(df)                                                 *)
(*   try:                                                                  *)
(*     df['Start'] = pd.to_datetime(df['Start'], errors='coerce')          *)
(*     df['End'] = pd.to_datetime(df['End'], errors='coerce')              *)
(*   except Exception as e: print(e)                                       *)
(*   return df                                                             *)
(* A cell of a date column is [kind, val]: a text ("str", its characters), *)
(* a missing value ("none"), a date ("dt", <<month, day>>) or the          *)
(* not-a-time marker ("nat").  The texts follow a month/day format of one  *)
(* digit each; with errors='coerce' everything else becomes not-a-time.    *)
(***************************************************************************)
Text(chars) == [kind |-> "str", val |-> chars]

Missing == [kind |-> "none", val |-> <<>>]

NaT == [kind |-> "nat", val |-> <<>>]

Date(m, d) == [kind |-> "dt", val |-> <<m, d>>]

Digits == {"0", "1", "2", "3", "4", "5", "6", "7", "8", "9"}

DigitValue(ch) ==
    CASE ch = "0" -> 0 [] ch = "1" -> 1 [] ch = "2" -> 2 [] ch = "3" -> 3
      [] ch = "4" -> 4 [] ch = "5" -> 5 [] ch = "6" -> 6 [] ch = "7" -> 7
      [] ch = "8" -> 8 [] ch = "9" -> 9

\* ParseCell reading day/month
ParseCell_dayFirst(x) ==
    IF x.kind \in {"dt", "nat"} THEN x
    ELSE IF x.kind = "none" THEN NaT
    ELSE LET t == x.val
         IN  IF /\ Len(t) = 3
                /\ t[1] \in Digits
                /\ t[2] = "/"
                /\ t[3] \in Digits
                /\ DigitValue(t[1]) >= 1
                /\ DigitValue(t[3]) >= 1
             THEN Date(DigitValue(t[3]), DigitValue(t[1]))
             ELSE NaT

\* pd.to_datetime(cell, errors='coerce') for one cell
ParseCell(x) ==
    IF x.kind \in {"dt", "nat"} THEN x
    ELSE IF x.kind = "none" THEN NaT
    ELSE LET t == x.val
         IN  IF /\ Len(t) = 3
                /\ t[1] \in Digits
                /\ t[2] = "/"
                /\ t[3] \in Digits
                /\ DigitValue(t[1]) >= 1
                /\ DigitValue(t[3]) >= 1
             THEN Date(DigitValue(t[1]), DigitValue(t[3]))
             ELSE NaT

\* pd.to_datetime(series, errors='coerce')
ToDatetime(s) == [i \in 1..Len(s) |-> ParseCell(s[i])]

convert_to_datetime ==
    /\ calls < MaxCalls
    /\ NoKMeans
    /\ calls' = calls + 1
    /\ call' = Call("convert_to_datetime", {}, "", "", 0)
    /\ old' = df
    /\ oldself' = selfdf
    /\ raised' = FALSE
    /\ UNCHANGED <<hasdf, selfdf>>
    /\ IF "Start" \notin Columns(df)
       THEN /\ UNCHANGED df
            /\ printed' = <<ErrorMsg>>
       ELSE IF "End" \notin Columns(df)
       THEN /\ df' = [df EXCEPT !.col["Start"] = ToDatetime(df.col["Start"])]
            /\ printed' = <<ErrorMsg>>
       ELSE /\ df' = [df EXCEPT !.col["Start"] = ToDatetime(df.col["Start"]),
                                !.col["End"] = ToDatetime(df.col["End"])]
            /\ printed' = <<>>
    /\ ret' = RetTable(df')

NamesDate == {"Start", "End", "Z"}

TextsDate ==
    { Text(<<"1", "/", "2">>), Text(<<"3", "/", "1">>),
      Text(<<"0", "/", "1">>), Text(<<"x">>) }

CellsDate == [c \in NamesDate |->
                IF c = "Z" THEN {Text(<<"1", "/", "2">>)}
                ELSE TextsDate \cup {Missing}]

InitDate ==
    /\ NoInternal
    /\ df \in Tables(NamesDate, MaxRowsDate, CellsDate)
    /\ Fresh

NextDate == convert_to_datetime

SpecDate == InitDate /\ [][NextDate]_vars

(***************************************************************************)
(* choose_k_means(df, num)                                                 *)
(*   try:                                                                  *)
(*     distortions = []; inertias = []                                     *)
(*     for k in range(1, num):                                             *)
(*       k_means = KMeans(n_clusters=k, random_state=777).fit(df)          *)
(*       distortions.append(sum(np.min(cdist(df, centers), axis=1))        *)
(*                          / df.shape[0])                                 *)
(*       inertias.append(k_means.inertia_)                                 *)
(*   except Exception as e: print(e)                                       *)
(*   return (distortions, inertias)                                        *)
(* The table has the one feature column "x".  fit raises ValueError for a  *)
(* table with a missing cell, without a feature, or with fewer rows than   *)
(* clusters.  Which local optimum the seeded fit converges to is left      *)
(* open: any labelling with k non-empty clusters in which every point      *)
(* lies in a cluster whose centre (the cluster mean) is nearest to it.     *)
(* After a successful fit nothing between the two appends can fail: the    *)
(* distances are those of the points just fitted and inertia_ is an        *)
(* attribute read, so one iteration is one step.                           *)
(***************************************************************************)
Points(T) == T.col["x"]

\* FitRaises demanding more rows than clusters
FitRaises_offByOne(T, n_clusters) ==
    IF "x" \notin Columns(T) THEN TRUE
    ELSE IF \E i \in 1..T.nrows : IsNull(Points(T)[i]) THEN TRUE
    ELSE T.nrows <= n_clusters

FitRaises(T, n_clusters) ==
    IF "x" \notin Columns(T) THEN TRUE
    ELSE IF \E i \in 1..T.nrows : IsNull(Points(T)[i]) THEN TRUE
    ELSE T.nrows < n_clusters

\* k_means.cluster_centers_ for a labelling: the mean of each cluster
Centers(T, l, n_clusters) ==
    [j \in 1..n_clusters |->
        Mean([i \in 1..T.nrows |-> IF l[i] = j THEN Points(T)[i] ELSE NaN])]

Dist(x, y) == RAbs(RSub(x, y))

\* np.min(cdist(df, centers, 'euclidean'), axis=1) for row i
MinDist(T, c, i) ==
    LET ds == { Dist(Points(T)[i], c[j]) : j \in DOMAIN c }
    IN  CHOOSE d \in ds : \A e \in ds : RLeq(d, e)

Labellings(T, n_clusters) ==
    { l \in [1..T.nrows -> 1..n_clusters] :
        /\ \A j \in 1..n_clusters : \E i \in 1..T.nrows : l[i] = j
        /\ \A i \in 1..T.nrows :
              Dist(Points(T)[i], Centers(T, l, n_clusters)[l[i]])
                  = MinDist(T, Centers(T, l, n_clusters), i) }

\* sum(np.min(cdist(...), axis=1)) / df.shape[0]
Distortion(T, l, n_clusters) ==
    RDiv(SumSeq([i \in 1..T.nrows |-> MinDist(T, Centers(T, l, n_clusters), i)]),
         T.nrows)

\* k_means.inertia_: the sum of the squared distances to the own centre
Inertia(T, l, n_clusters) ==
    SumSeq([i \in 1..T.nrows |->
              LET d == Dist(Points(T)[i], Centers(T, l, n_clusters)[l[i]])
              IN  RMul(d, d)])

\* the call: both lists are created and the sweep starts at k = 1
choose_k_means(num) ==
    /\ calls < MaxCalls
    /\ pc = "idle"
    /\ calls' = calls + 1
    /\ call' = Call("choose_k_means", {}, "", "", num)
    /\ old' = df
    /\ oldself' = selfdf
    /\ pc' = "loop"
    /\ k' = 1
    /\ distortions' = <<>>
    /\ inertias' = <<>>
    /\ printed' = <<>>
    /\ ret' = RetNone
    /\ raised' = FALSE
    /\ UNCHANGED <<hasdf, selfdf, df>>

\* one iteration in which fit succeeds: both entries are appended
KIterate ==
    /\ pc = "loop"
    /\ k < call.num
    /\ ~FitRaises(df, k)
    /\ \E l \in Labellings(df, k) :
          /\ distortions' = Append(distortions, Distortion(df, l, k))
          /\ inertias' = Append(inertias, Inertia(df, l, k))
    /\ k' = k + 1
    /\ UNCHANGED <<hasdf, selfdf, df, old, oldself, call, ret, raised,
                   printed, calls, pc>>

\* KFail failing after the distortion of the iteration was appended
KFail_afterAppend ==
    /\ pc = "loop"
    /\ k < call.num
    /\ FitRaises(df, k)
    /\ distortions' = Append(distortions, Num(0))
    /\ printed' = <<ErrorMsg>>
    /\ ret' = RetPair(distortions', inertias)
    /\ pc' = "idle"
    /\ UNCHANGED <<hasdf, selfdf, df, old, oldself, call, raised, calls, k,
                   inertias>>

\* the iteration in which fit raises: the message is printed and the lists
\* built so far are returned
KFail ==
    /\ pc = "loop"
    /\ k < call.num
    /\ FitRaises(df, k)
    /\ printed' = <<ErrorMsg>>
    /\ ret' = RetPair(distortions, inertias)
    /\ pc' = "idle"
    /\ UNCHANGED <<hasdf, selfdf, df, old, oldself, call, raised, calls, k,
                   distortions, inertias>>

\* the range is exhausted: the lists are returned
KReturn ==
    /\ pc = "loop"
    /\ k >= call.num
    /\ ret' = RetPair(distortions, inertias)
    /\ pc' = "idle"
    /\ UNCHANGED <<hasdf, selfdf, df, old, oldself, call, raised, printed,
                   calls, k, distortions, inertias>>

NamesK == {"x"}

CellsK == [c \in NamesK |-> {NaN, Num(0), Num(1), Num(3)}]

InitK ==
    /\ NoInternal
    /\ df \in Tables(NamesK, MaxRowsK, CellsK)
    /\ Fresh

CallChooseKMeans == \E num \in 0..MaxNum : choose_k_means(num)

NextK ==
    \/ CallChooseKMeans
    \/ KIterate
    \/ KFail
    \/ KReturn

SpecK == InitK /\ [][NextK]_vars

(***************************************************************************)
(* Statistics stated without sorting, for the properties below.            *)
(***************************************************************************)
\* the j-th smallest of the non-missing cells of s
OrderStat(s, j) ==
    LET vs == DropNa(s)
        I == 1..Len(vs)
    IN  CHOOSE v \in { vs[i] : i \in I } :
            /\ Cardinality({ i \in I : RLeq(vs[i], v) /\ vs[i] # v }) < j
            /\ Cardinality({ i \in I : RLeq(vs[i], v) }) >= j

\* m is the median of the non-missing cells of s (NaN if there is none)
IsMedianOf(m, s) ==
    LET n == Len(DropNa(s))
    IN  IF n = 0 THEN IsNull(m)
        ELSE RMul(m, Num(2)) =
                 RAdd(OrderStat(s, (n + 1) \div 2), OrderStat(s, n \div 2 + 1))

\* m is the mean of the non-missing cells of s (NaN if there is none)
IsMeanOf(m, s) ==
    LET n == Len(DropNa(s))
    IN  IF n = 0 THEN IsNull(m)
        ELSE RMul(m, Num(n)) = SumSeq(DropNa(s))

\* x is strictly above the 95th percentile of the non-missing cells of s:
\* 20 x > (20 - fr) v[lo] + fr v[lo + 1] with 19 (n - 1) = 20 (lo - 1) + fr
AboveP95(x, s) ==
    LET n == Len(DropNa(s))
        lo == (19 * (n - 1)) \div 20 + 1
        fr == (19 * (n - 1)) % 20
    IN  /\ ~IsNull(x)
        /\ n > 0
        /\ RGreater(RMul(x, Num(20)),
                    IF fr = 0 THEN RMul(OrderStat(s, lo), Num(20))
                    ELSE RAdd(RMul(OrderStat(s, lo), Num(20 - fr)),
                              RMul(OrderStat(s, lo + 1), Num(fr))))

NullCells(T) ==
    Cardinality({ ci \in Columns(T) \X (1..T.nrows) : IsNull(T.col[ci[1]][ci[2]]) })

\* v, a number with ten decimals, is a nearest one to 100 * m / n
IsNearest10(v, m, n) ==
    /\ ~v.nan
    /\ v.int >= 0
    /\ v.hi \in 0..(Limb - 1)
    /\ v.lo \in 0..(Limb - 1)
    /\ LET a == 100 * m - n * v.int
       IN  /\ a \in (0 - n)..n
           /\ LET b == Limb * a - n * v.hi
              IN  /\ b \in (0 - n)..n
                  /\ LET d == Limb * b - n * v.lo
                     IN  2 * d \in (0 - n)..n

Zero10 == [nan |-> FALSE, int |-> 0, hi |-> 0, lo |-> 0]

(***************************************************************************)
(* Properties.                                                             *)
(***************************************************************************)

\* C1: no public operation propagates an exception to its caller, whatever
\* the state of the instance and whatever columns are requested.
C1_NoOperationPropagates == call.op # "none" => ~raised

\* C2: with the internal table set, remove_unwanted_cols(C) returns the
\* internal table; if every name of C is a column, exactly the columns of C
\* are gone and the others keep their cells; if some name of C is not a
\* column, nothing at all is removed.
C2_RemoveAllOrNothing ==
    (call.op = "remove_unwanted_cols" /\ hasdf) =>
        /\ ~raised
        /\ ret.kind = "table"
        /\ ret.table = selfdf
        /\ selfdf.nrows = oldself.nrows
        /\ IF call.cols \subseteq Columns(oldself)
           THEN /\ Columns(selfdf) = Columns(oldself) \ call.cols
                /\ \A c \in Columns(selfdf) : selfdf.col[c] = oldself.col[c]
           ELSE selfdf = oldself

\* C2 witness: some but not all columns were removed
C2_Witness ==
    /\ call.op = "remove_unwanted_cols"
    /\ hasdf
    /\ call.cols # {}
    /\ call.cols \subseteq Columns(oldself)
    /\ Columns(selfdf) # {}
    /\ Columns(selfdf) # Columns(oldself)
    /\ selfdf.nrows > 0

\* C3 as stated: the printed value is 100 * nulls / (rows * cols) rounded to
\* ten decimals, and it is 0 for every table without a missing value, the
\* tables with no row or no column included; the table is not modified and
\* nothing is returned.
C3_PercentAsStated ==
    call.op = "percent_missing" =>
        /\ df = old
        /\ ret.kind = "none"
        /\ Len(printed) = 1
        /\ printed[1].kind = "pct"
        /\ IF NullCells(old) = 0 THEN printed[1].val = Zero10
           ELSE IsNearest10(printed[1].val, NullCells(old),
                            old.nrows * Cardinality(Columns(old)))

\* C3 amended: for a table with at least one cell the printed value is
\* 100 * nulls / (rows * cols) rounded to ten decimals, 0 when no cell is
\* missing; for a table with no row or no column it is not-a-number; the
\* table is not modified and nothing is returned.
C3_PercentOfNonEmpty ==
    call.op = "percent_missing" =>
        /\ df = old
        /\ ret.kind = "none"
        /\ ~raised
        /\ Len(printed) = 1
        /\ printed[1].kind = "pct"
        /\ IF old.nrows * Cardinality(Columns(old)) = 0
           THEN printed[1].val.nan
           ELSE /\ IsNearest10(printed[1].val, NullCells(old),
                               old.nrows * Cardinality(Columns(old)))
                /\ NullCells(old) = 0 => printed[1].val = Zero10

\* C3 witness: 10 rows, 3 columns, 2 missing cells in column A: 6.6666666667
C3_Witness ==
    /\ call.op = "percent_missing"
    /\ old.nrows = 10
    /\ Columns(old) = {"A", "B", "C"}
    /\ NullCount(old.col["A"]) = 2
    /\ NullCells(old) = 2
    /\ printed = <<PctMsg([nan |-> FALSE, int |-> 6, hi |-> 66666, lo |-> 66667])>>

\* C4: fillWithMedian / fillWithMean with every name of C a column: in each
\* column of C the cells that were present are unchanged and the missing
\* ones hold the median / mean of that column's own present cells (so no
\* cell is missing unless all were); the other columns are unchanged.  With
\* a name of C absent, no cell is modified.  The table is returned.
C4_FillOwnStatistic ==
    call.op \in {"fillWithMedian", "fillWithMean"} =>
        /\ ~raised
        /\ ret.kind = "table"
        /\ ret.table = df
        /\ IF call.cols \subseteq Columns(old)
           THEN /\ Columns(df) = Columns(old)
                /\ df.nrows = old.nrows
                /\ \A c \in Columns(old) \ call.cols : df.col[c] = old.col[c]
                /\ \A c \in call.cols : \A i \in 1..old.nrows :
                      IF ~IsNull(old.col[c][i])
                      THEN df.col[c][i] = old.col[c][i]
                      ELSE /\ IF call.op = "fillWithMedian"
                              THEN IsMedianOf(df.col[c][i], old.col[c])
                              ELSE IsMeanOf(df.col[c][i], old.col[c])
                           /\ DropNa(old.col[c]) # <<>> => ~IsNull(df.col[c][i])
           ELSE df = old

\* C4 witness: a missing cell of A received the mean 4/3 of 1, 1, 2 while
\* column B, not selected, kept its missing cell
C4_Witness ==
    /\ call.op = "fillWithMean"
    /\ call.cols = {"A"}
    /\ Columns(old) = {"A", "B"}
    /\ \E i \in 1..old.nrows :
          /\ IsNull(old.col["A"][i])
          /\ df.col["A"][i] = <<4, 3>>
          /\ IsNull(df.col["B"][i])

ClippedTwice ==
    /\ call.op = "fix_outlier"
    /\ call.prevop = "fix_outlier"
    /\ call.prevcolumn = call.column
    /\ call.column \in Columns(old)

\* C6 as stated: a second fix_outlier on the already clipped column changes
\* nothing.
C6_IdempotentAsStated == ClippedTwice => df = old

\* C6 amended: a second fix_outlier on the already clipped column changes
\* nothing exactly when no cell of the clipped column is strictly above the
\* clipped column's own 95th percentile; otherwise it replaces those cells
\* again (1, 2, 3, 100 -> 1, 2, 3, 2.5 -> 1, 2, 2.25, 2.5).
C6_SecondClipNoOpIffNothingAbove ==
    ClippedTwice =>
        /\ (df = old) <=>
              ~\E i \in 1..old.nrows :
                  AboveP95(old.col[call.column][i], old.col[call.column])
        /\ old.col[call.column] = <<Num(1), Num(2), Num(3), <<5, 2>>>>
              => df.col[call.column] = <<Num(1), Num(2), <<9, 4>>, <<5, 2>>>>

\* C6 witness: the second application turned 1, 2, 3, 2.5 into 1, 2, 2.25, 2.5
C6_Witness ==
    /\ ClippedTwice
    /\ old.col[call.column] = <<Num(1), Num(2), Num(3), <<5, 2>>>>
    /\ df.col[call.column] = <<Num(1), Num(2), <<9, 4>>, <<5, 2>>>>

\* Series.mode() as a fill value: the smallest of the most frequent cells
ModeOf(s) ==
    LET vs == DropNa(s)
        I == 1..Len(vs)
        Count(v) == Cardinality({ i \in I : vs[i] = v })
    IN  IF vs = <<>> THEN NaN
        ELSE CHOOSE v \in { vs[i] : i \in I } :
                 \A i \in I : \/ Count(vs[i]) < Count(v)
                              \/ Count(vs[i]) = Count(v) /\ RLeq(v, vs[i])

\* C8: fill_na with kind mean / median / mode and the internal table set
\* fills, for each listed column, the missing cells of the internal table
\* with that statistic of the same column of the passed table and returns
\* the internal table; with any other kind nothing changes and nothing is
\* returned.
C8_FillNaFills ==
    (call.op = "fill_na" /\ hasdf) =>
        IF call.kind \in FillKinds
        THEN (call.cols \subseteq (Columns(oldself) \cap Columns(old))) =>
                /\ ret.kind = "table"
                /\ ret.table = selfdf
                /\ \A c \in call.cols : \A i \in 1..oldself.nrows :
                      IF ~IsNull(oldself.col[c][i])
                      THEN selfdf.col[c][i] = oldself.col[c][i]
                      ELSE CASE call.kind = "mean" ->
                                    IsMeanOf(selfdf.col[c][i], old.col[c])
                             [] call.kind = "median" ->
                                    IsMedianOf(selfdf.col[c][i], old.col[c])
                             [] OTHER ->
                                    selfdf.col[c][i] = ModeOf(old.col[c])
        ELSE /\ selfdf = oldself
             /\ df = old
             /\ ret.kind = "none"

\* the last call was choose_k_means and it has returned
KMeansReturned ==
    /\ call.op = "choose_k_means"
    /\ pc = "idle"

\* entries d, i are a result of fitting n_clusters clusters on T
IsResultFor(d, i, T, n_clusters) ==
    \E l \in [1..T.nrows -> 1..n_clusters] :
        /\ \A j \in 1..n_clusters : \E r \in 1..T.nrows : l[r] = j
        /\ d = Distortion(T, l, n_clusters)
        /\ i = Inertia(T, l, n_clusters)

\* the number of cluster counts that can be fitted on T
Fittable(T) ==
    IF "x" \in Columns(T) /\ NullCells(T) = 0 THEN T.nrows ELSE 0

\* C7 as stated: choose_k_means(T, num) with num >= 1 returns two sequences
\* of length exactly num - 1 (empty for num = 1), with inertia >= 0.
C7_LengthAsStated ==
    (KMeansReturned /\ call.num >= 1) =>
        /\ ret.kind = "pair"
        /\ Len(ret.column[1]) = call.num - 1
        /\ Len(ret.column[2]) = call.num - 1
        /\ \A j \in 1..Len(ret.column[2]) : RLeq(Num(0), ret.column[2][j])

\* C7 amended: choose_k_means(T, num) with num >= 1 returns two sequences of
\* the same length, which is num - 1 when T has no missing cell and at
\* least num - 1 rows, and otherwise the number of cluster counts fitted
\* before the first failure (rows(T), or 0 for a table with a missing
\* cell); entry j (0-based) is the result for k = j + 1; for num = 1 both
\* are empty; every inertia is >= 0.
C7_LengthUpToFirstFailure ==
    (KMeansReturned /\ call.num >= 1) =>
        /\ ret.kind = "pair"
        /\ ~raised
        /\ Len(ret.column[1]) =
              IF call.num - 1 <= Fittable(df) THEN call.num - 1
              ELSE Fittable(df)
        /\ Len(ret.column[2]) = Len(ret.column[1])
        /\ \A j \in 1..Len(ret.column[2]) :
              /\ RLeq(Num(0), ret.column[2][j])
              /\ IsResultFor(ret.column[1][j], ret.column[2][j], df, j)

\* C7 witness: a full sweep of num - 1 = 3 cluster counts over 3 rows whose
\* last inertia is 0 and first is not
C7_Witness ==
    /\ KMeansReturned
    /\ call.num = 4
    /\ df.nrows = 3
    /\ ret.kind = "pair"
    /\ Len(ret.column[2]) = 3
    /\ ret.column[2][1] # Num(0)
    /\ ret.column[2][3] = Num(0)

\* the date a cell of the inputs stands for, not-a-time if none
ExpectedDate(x) ==
    IF x = Text(<<"1", "/", "2">>) THEN Date(1, 2)
    ELSE IF x = Text(<<"3", "/", "1">>) THEN Date(3, 1)
    ELSE IF x.kind = "dt" THEN x
    ELSE NaT

\* C9: convert_to_datetime returns the table it was given; with Start and
\* End both present every cell of the two that parses holds its date and
\* every other one the not-a-time marker; with Start present and End absent
\* Start is converted all the same; all other columns are unchanged; no
\* exception leaves the call.
C9_DatesCoerced ==
    call.op = "convert_to_datetime" =>
        /\ ~raised
        /\ ret.kind = "table"
        /\ ret.table = df
        /\ Columns(df) = Columns(old)
        /\ df.nrows = old.nrows
        /\ \A c \in Columns(old) \ {"Start", "End"} : df.col[c] = old.col[c]
        /\ "Start" \in Columns(old) =>
              /\ \A i \in 1..old.nrows :
                    df.col["Start"][i] = ExpectedDate(old.col["Start"][i])
              /\ "End" \in Columns(old) =>
                    /\ printed = <<>>
                    /\ \A i \in 1..old.nrows :
                          df.col["End"][i] = ExpectedDate(old.col["End"][i])
              /\ "End" \notin Columns(old) => printed = <<ErrorMsg>>

\* C9 witness: in one Start column a text became a date and the text after
\* it, which does not parse, became not-a-time, End being converted too
C9_Witness ==
    /\ call.op = "convert_to_datetime"
    /\ Columns(old) = {"Start", "End", "Z"}
    /\ old.nrows = 2
    /\ old.col["Start"] = <<Text(<<"x">>), Text(<<"3", "/", "1">>)>>
    /\ df.col["Start"] = <<NaT, Date(3, 1)>>
    /\ old.col["End"][1] = Text(<<"1", "/", "2">>)
    /\ df.col["End"][1] = Date(1, 2)

\* C10: the two lists of choose_k_means have the same length at every step
\* of the sweep and at return; when fitting fails at k = j the sweep stops
\* and the call returns exactly the j - 1 pairs of entries for
\* k = 1 .. j - 1.
C10_PartialSweep ==
    /\ Len(distortions) = Len(inertias)
    /\ pc = "loop" => Len(distortions) = k - 1
    /\ (KMeansReturned /\ printed = <<ErrorMsg>>) =>
          /\ FitRaises(df, k)
          /\ ret = RetPair(distortions, inertias)
          /\ Len(ret.column[1]) = k - 1
          /\ Len(ret.column[2]) = k - 1
          /\ \A j \in 1..(k - 1) :
                IsResultFor(ret.column[1][j], ret.column[2][j], df, j)

\* C10 witness: with 2 rows fitting failed at k = 3 and the two entries for
\* k = 1, 2 were returned
C10_Witness ==
    /\ KMeansReturned
    /\ printed = <<ErrorMsg>>
    /\ df.nrows = 2
    /\ k = 3
    /\ ret.kind = "pair"
    /\ Len(ret.column[1]) = 2
    /\ Len(ret.column[2]) = 2

====
